---- MODULE Spec2Model ----
(***************************************************************************)
(* libivee: a session (struct ivee) owning a KVM VM handle, a guest memory *)
(* map, the boot CPU image, the entry address and the page-table region.   *)
(* The public operations ivee_create, ivee_load_executable, ivee_call and  *)
(* ivee_destroy of src/src/libivee.c are the actions of the model.  The    *)
(* memory map (memory.c), the KVM wrapper (kvm.c) and the platform shim    *)
(* are not part of src/ and are modelled from their contracts in spec.md.  *)
(*                                                                         *)
(* Representation.  A 64-bit page-table entry is a record: addr holds bits *)
(* 12..51 (as a byte address), p, rw and nx hold bits 0, 1 and 63.  The    *)
(* contents of a host mapping are the log of the stores made to it, read   *)
(* back with WordAt.  A pointer to a region is the id of its host mapping  *)
(* (0 is NULL).  A register wider than 31 bits is the set of its 1 bits.   *)
(***************************************************************************)
EXTENDS Integers, Sequences, FiniteSets, TLC

VARIABLES
    session,      \* "none" | "live" | "freed": the struct ivee allocation
    ivee,         \* the fields of struct ivee
    vm,           \* the KVM VM/vCPU object ivee->vm points to
    host,         \* live host mappings: hva id -> contents
    arch_state,   \* the caller's struct ivee_arch_state
    last,         \* what the last public call was given and what it returned
    ops           \* the loads and calls made on the session so far, whether
                  \* the latest load succeeded, and the entry address the
                  \* latest successful load left in the session

vars == <<session, ivee, vm, host, arch_state, last, ops>>

----------------------------------------------------------------------------
(* errno values used as negative status codes *)
EINTR == 4
EIO == 5
ENXIO == 6
ENOMEM == 12
EINVAL == 22
ENOTSUP == 95

(* x86.h *)
X86_PAGE_SIZE == 4096
X86_PTES_PER_PAGE == 512

(* libivee.c:99-105 *)
IVEE_GUEST_MEMORY_SIZE == 1073741824
IVEE_GUEST_PAGES_COUNT == IVEE_GUEST_MEMORY_SIZE \div X86_PAGE_SIZE
IVEE_PAGE_TABLE_SIZE == X86_PAGE_SIZE * 515
IVEE_PML4_BASE_GPA == IVEE_GUEST_MEMORY_SIZE - IVEE_PAGE_TABLE_SIZE
IVEE_PDPE_BASE_GPA == IVEE_PML4_BASE_GPA + X86_PAGE_SIZE
IVEE_PDE_BASE_GPA == IVEE_PDPE_BASE_GPA + X86_PAGE_SIZE
IVEE_PTE_BASE_GPA == IVEE_PDE_BASE_GPA + X86_PAGE_SIZE

NULL == 0

(* protection bits of a region and the flags of a page-table entry *)
IVEE_READ == "R"
IVEE_WRITE == "W"
IVEE_EXEC == "X"
X86_PTE_PRESENT == "P"
X86_PTE_RW == "RW"
X86_PTE_NX == "NX"

(* addr | flags, for a page-aligned addr below 2^52 *)
PTE(addr, flags) ==
    [addr |-> addr, p |-> X86_PTE_PRESENT \in flags,
     rw |-> X86_PTE_RW \in flags, nx |-> X86_PTE_NX \in flags]

ZeroPTE == [addr |-> 0, p |-> FALSE, rw |-> FALSE, nx |-> FALSE]

(* Host memory is kept as the log of the stores made to it, oldest first:
     [kind |-> "word", at, val]              one word
     [kind |-> "dir",  at, n, base, flags]   word at+i = (base + 4096*i) | flags
     [kind |-> "zero", at, n]                memset of n words
     [kind |-> "leaf", at, mr]               the leaf entries of region mr
   A word no store covers is zero (a fresh anonymous mapping). *)
NoMem == <<>>

----------------------------------------------------------------------------
(* Memory map (memory.c, from spec.md 4.1) *)

RoundUpPage(size) == ((size + X86_PAGE_SIZE - 1) \div X86_PAGE_SIZE) * X86_PAGE_SIZE

Overlaps(map, first, lastf) ==
    \E i \in 1..Len(map) : map[i].first_gfn <= lastf /\ first <= map[i].last_gfn

(* the smallest id that names no live mapping *)
FreshHva(h) == CHOOSE k \in 1..(Cardinality(DOMAIN h) + 1) : k \notin DOMAIN h

RECURSIVE InsertSorted(_, _)
InsertSorted(map, mr) ==
    IF map = <<>> \/ mr.first_gfn < Head(map).first_gfn
    THEN <<mr>> \o map
    ELSE <<Head(map)>> \o InsertSorted(Tail(map), mr)

ivee_init_memory_map == <<>>

(* ivee_map_host_memory(map, gpa, size, fd, readonly, prot): the new region's
   pointer (NULL on failure), the map and the host mappings afterwards.
   alloc_ok: whether the host mapping can be obtained. *)
ivee_map_host_memory(map, h, gpa, size, fd, readonly, prot, alloc_ok) ==
    LET rsize == RoundUpPage(size)
        first == gpa \div X86_PAGE_SIZE
        lastf == first + (rsize \div X86_PAGE_SIZE) - 1
        hva   == FreshHva(h)
        mr    == [first_gfn |-> first, last_gfn |-> lastf, hva |-> hva,
                  prot |-> prot, ro |-> readonly, file |-> (fd >= 0)]
    IN  IF gpa % X86_PAGE_SIZE # 0 \/ rsize = 0 \/ Overlaps(map, first, lastf)
           \/ ~alloc_ok
        THEN [mr |-> NULL, map |-> map, host |-> h]
        ELSE [mr |-> hva, map |-> InsertSorted(map, mr),
              host |-> (hva :> [size |-> rsize, written |-> 0, mem |-> NoMem]) @@ h]

(* ivee_free_memory_map: every region's host mapping released, the list emptied *)
FreeHost(map, h) ==
    LET gone == {map[i].hva : i \in 1..Len(map)}
    IN  [k \in DOMAIN h \ gone |-> h[k]]

HasRegion(map, ptr) == \E i \in 1..Len(map) : map[i].hva = ptr

----------------------------------------------------------------------------
(* Reading host memory back from the log of stores *)

WORDS_PER_PAGE == X86_PAGE_SIZE \div 8

(* ((gfn >> 9) & 0x1FF) * X86_PTES_PER_PAGE + (gfn & 0x1FF) *)
SlotIndex(gfn) == ((gfn \div 512) % 512) * X86_PTES_PER_PAGE + (gfn % 512)

(* (gfn << 12) | RW if writable | NX if not executable | PRESENT *)
LeafPTE(gfn, prot) ==
    PTE(gfn * X86_PAGE_SIZE,
        {X86_PTE_PRESENT}
        \cup (IF IVEE_WRITE \in prot THEN {X86_PTE_RW} ELSE {})
        \cup (IF IVEE_EXEC \in prot THEN {} ELSE {X86_PTE_NX}))

(* The last frame of region mr whose leaf entry is stored at slot s: the loop
   runs gfn upwards, so the largest gfn <= last_gfn with SlotIndex(gfn) = s. *)
LastFrameAt(mr, s) ==
    mr.last_gfn - ((mr.last_gfn - s) % (512 * X86_PTES_PER_PAGE))

Covers(st, i) ==
    CASE st.kind = "word" -> i = st.at
      [] st.kind = "dir"  -> st.at <= i /\ i < st.at + st.n
      [] st.kind = "zero" -> st.at <= i /\ i < st.at + st.n
      [] st.kind = "leaf" -> /\ st.at <= i
                             /\ i < st.at + 512 * X86_PTES_PER_PAGE
                             /\ LastFrameAt(st.mr, i - st.at) >= st.mr.first_gfn

Stored(st, i) ==
    CASE st.kind = "word" -> st.val
      [] st.kind = "dir"  -> PTE(st.base + X86_PAGE_SIZE * (i - st.at), st.flags)
      [] st.kind = "zero" -> ZeroPTE
      [] st.kind = "leaf" -> LeafPTE(LastFrameAt(st.mr, i - st.at), st.mr.prot)

(* the 8-byte word at index i of a host mapping: what the last store that
   covers it left there *)
WordAt(mem, i) ==
    LET hits == {k \in 1..Len(mem) : Covers(mem[k], i)}
    IN  IF hits = {} THEN ZeroPTE
        ELSE Stored(mem[CHOOSE k \in hits : \A j \in hits : j <= k], i)

----------------------------------------------------------------------------
(* Page-table builder, libivee.c:115-162 *)

RECURSIVE MapRegions(_, _, _, _)
MapRegions(mem, pte_pages_base, map, i) ==
    IF i > Len(map) THEN mem
    ELSE MapRegions(Append(mem, [kind |-> "leaf", at |-> pte_pages_base, mr |-> map[i]]),
                    pte_pages_base, map, i + 1)

(* word indices of the PML4, PDPT, PD and PT pages in the region's mapping *)
PML4_AT == 0
PDPE_AT == PML4_AT + WORDS_PER_PAGE
PDE_AT == PDPE_AT + WORDS_PER_PAGE
PTE_PAGES_BASE == PDE_AT + X86_PTES_PER_PAGE

(* libivee.c:132-147: the three directory levels, then the memset of the PTs *)
DirectoryStores ==
    <<[kind |-> "word", at |-> PML4_AT,
       val |-> PTE(IVEE_PDPE_BASE_GPA, {X86_PTE_PRESENT})],
      [kind |-> "word", at |-> PDPE_AT,
       val |-> PTE(IVEE_PDE_BASE_GPA, {X86_PTE_PRESENT})],
      [kind |-> "dir", at |-> PDE_AT, n |-> X86_PTES_PER_PAGE,
       base |-> IVEE_PTE_BASE_GPA, flags |-> {X86_PTE_PRESENT, X86_PTE_RW}],
      [kind |-> "zero", at |-> PTE_PAGES_BASE, n |-> IVEE_GUEST_PAGES_COUNT]>>

(* libivee.c:126-161, m being what ivee_map_host_memory returned *)
write_page_tables(iv, m) ==
    IF m.mr = NULL
    THEN [res |-> -ENOMEM, iv |-> [iv EXCEPT !.gpt_mr = NULL], host |-> m.host]
    ELSE [res |-> 0, iv |-> [iv EXCEPT !.gpt_mr = m.mr, !.memory_map = m.map],
          host |-> [m.host EXCEPT ![m.mr].mem =
                       MapRegions(@ \o DirectoryStores, PTE_PAGES_BASE, m.map, 1)]]

(* iv: struct ivee, h: the host mappings.  Returns the status, iv and h. *)
init_guest_page_table(iv, h, alloc_ok) ==
    write_page_tables(iv, ivee_map_host_memory(iv.memory_map, h, IVEE_PML4_BASE_GPA,
                                               IVEE_PAGE_TABLE_SIZE, -1, FALSE,
                                               {IVEE_READ, IVEE_WRITE}, alloc_ok))

----------------------------------------------------------------------------
(* Boot CPU image, libivee.c:164-223 *)

GPRS == {"rax", "rbx", "rcx", "rdx", "rsi", "rdi", "rbp",
         "r8", "r9", "r10", "r11", "r12", "r13", "r14", "r15"}

reset_x86_segment(selector, limit, type, flags) ==
    [base |-> 0, limit |-> limit, selector |-> selector, type |-> type,
     dpl |-> 0, flags |-> flags]

ZeroSeg == reset_x86_segment(0, {}, {}, {})

(* the image after memset(x86_cpu, 0, ...) *)
ZeroCpu ==
    [gpr |-> [r \in GPRS |-> 0], rip |-> 0, rflags |-> 0,
     cs |-> ZeroSeg, ds |-> ZeroSeg, ss |-> ZeroSeg, es |-> ZeroSeg,
     fs |-> ZeroSeg, gs |-> ZeroSeg, tr |-> ZeroSeg, ldt |-> ZeroSeg,
     cr0 |-> {}, cr3 |-> 0, cr4 |-> 0, efer |-> 0]

LIMIT_4G == 0..31     \* 0xFFFFFFFF

FlatData == reset_x86_segment(16, LIMIT_4G, {"DATA", "ACC"}, {"S", "P", "G", "DB"})

(* CS set up like the data segments: a 32-bit segment, not a long-mode one *)
init_x86_cpu_cs_compat ==
    [ZeroCpu EXCEPT
        !.rflags = 2,
        !.cs = reset_x86_segment(8, LIMIT_4G, {"CODE", "ACC"}, {"S", "P", "G", "DB"}),
        !.ds = FlatData, !.ss = FlatData, !.es = FlatData,
        !.fs = FlatData, !.gs = FlatData,
        !.tr = reset_x86_segment(0, {}, {"TSS32"}, {"P"}),
        !.ldt = reset_x86_segment(0, {}, {"LDT"}, {"P"}),
        !.cr0 = {0, 16, 31},
        !.cr4 = 32,
        !.efer = 1280,
        !.cr3 = IVEE_PML4_BASE_GPA]

init_x86_cpu ==
    [ZeroCpu EXCEPT
        !.rflags = 2,
        !.cs = reset_x86_segment(8, LIMIT_4G, {"CODE", "ACC"}, {"S", "P", "G", "L"}),
        !.ds = FlatData, !.ss = FlatData, !.es = FlatData,
        !.fs = FlatData, !.gs = FlatData,
        !.tr = reset_x86_segment(0, {}, {"TSS32"}, {"P"}),
        !.ldt = reset_x86_segment(0, {}, {"LDT"}, {"P"}),
        !.cr0 = {0, 16, 31},          \* 0x80010001: PE | WP | PG
        !.cr4 = 32,                   \* 0x20: PAE
        !.efer = 1280,                \* 0x500: LMA | LME
        !.cr3 = IVEE_PML4_BASE_GPA]

----------------------------------------------------------------------------
(* The struct ivee right after ivee_zalloc *)
ZeroIvee ==
    [vm |-> NULL, memory_map |-> <<>>, x86_cpu |-> ZeroCpu, entry_addr |-> 0,
     gpt_mr |-> NULL, should_terminate |-> FALSE]

NoHost == [k \in {} |-> 0]

(* the KVM VM object: its memory slots, its vCPU image, whether it was released *)
NoVm == [slots |-> <<>>, vcpu |-> ZeroCpu, released |-> FALSE]

----------------------------------------------------------------------------
(* Loader, libivee.c:225-377.  A file is
     [name, access, size, hdr, e_entry, phdrs]
   and what the operating system and libelf do during a load is the record env:
     stat, open, elf_version  whether stat(), open(), elf_version() succeed
     elf_errno                what elf_errno() returns for a file that is no ELF
     oom_seg, oom_bin, oom_gpt   which ivee_map_host_memory cannot allocate
     io_seg                   the LOAD segment whose pread() fails with EIO
     errno                    errno as left by earlier calls
     guard                    whether the page after a segment's host mapping is
                              unmapped, so that a store past the mapping faults
     kvm_ok                   slots installed before the install fails (-1: all) *)

FLAT_BASE == 4194304     \* 0x400000, libivee.c:251

Min(a, b) == IF a < b THEN a ELSE b

(* pread(fd, hva, count, offset): the byte count returned and errno afterwards.
   room: the bytes that can be stored from hva on before a store faults; the
   kernel stops the copy there and returns what it copied. *)
pread(phdr, count, failed, errno, room) ==
    IF failed THEN [nbytes |-> -1, errno |-> EIO]
    ELSE [nbytes |-> Min(Min(count, phdr.avail), room), errno |-> errno]

(* the bytes writable from a segment's hva on: the mapping alone when the next
   page is unmapped, otherwise whatever lies behind it as well *)
Room(phdr, guard) == IF guard THEN RoundUpPage(phdr.p_memsz) ELSE phdr.p_filesz

Result(res, iv, h) == [res |-> res, iv |-> iv, host |-> h]

(* libivee.c:258-263, m being what ivee_map_host_memory returned *)
load_bin_mapped(iv, m) ==
    IF m.mr = NULL THEN Result(-ENOMEM, iv, m.host)
    ELSE Result(0, [iv EXCEPT !.memory_map = m.map], m.host)

load_bin(iv, h, file, env) ==
    IF ~env.stat THEN Result(-1, iv, h)
    ELSE IF file.size = 0 THEN Result(-EINVAL, iv, h)
    ELSE IF ~env.open THEN Result(-1, iv, h)
    ELSE load_bin_mapped([iv EXCEPT !.entry_addr = FLAT_BASE],
                         ivee_map_host_memory(iv.memory_map, h, FLAT_BASE, file.size,
                                              3, TRUE, {IVEE_READ, IVEE_EXEC},
                                              ~env.oom_bin))

SegmentProt(p_flags) ==
    (IF "PF_X" \in p_flags THEN {IVEE_EXEC} ELSE {})
    \cup (IF "PF_R" \in p_flags THEN {IVEE_READ} ELSE {})
    \cup (IF "PF_W" \in p_flags THEN {IVEE_WRITE} ELSE {})

(* the bytes pread stored at the start of the region's mapping *)
Filled(m, rd) ==
    IF rd.nbytes > 0 THEN [m.host EXCEPT ![m.mr].written = rd.nbytes] ELSE m.host

(* the program header loop, libivee.c:322-351, from header i on; res is the
   value of the local res when the loop is entered *)
RECURSIVE load_elf64_segments(_, _, _, _, _, _)

(* libivee.c:342-350 for LOAD header i, m being what ivee_map_host_memory
   returned and rd what pread returned *)
load_segment(iv, file, env, i, res, m, rd) ==
    IF m.mr = NULL
    THEN Result(res, iv, m.host)
    ELSE IF rd.nbytes # file.phdrs[i].p_filesz
    THEN Result(-rd.errno, [iv EXCEPT !.memory_map = m.map], Filled(m, rd))
    ELSE load_elf64_segments([iv EXCEPT !.memory_map = m.map], Filled(m, rd),
                             file, env, i + 1, res)

load_elf64_segments(iv, h, file, env, i, res) ==
    IF i > Len(file.phdrs)
    THEN Result(0, [iv EXCEPT !.entry_addr = file.e_entry], h)
    ELSE IF file.phdrs[i].p_type # "PT_LOAD"
    THEN load_elf64_segments(iv, h, file, env, i + 1, res)
    ELSE load_segment(iv, file, env, i, res,
                      ivee_map_host_memory(iv.memory_map, h, file.phdrs[i].p_vaddr,
                                           file.phdrs[i].p_memsz, -1, FALSE,
                                           SegmentProt(file.phdrs[i].p_flags),
                                           env.oom_seg # i),
                      pread(file.phdrs[i], file.phdrs[i].p_filesz, env.io_seg = i,
                            env.errno, Room(file.phdrs[i], env.guard)))

load_elf64(iv, h, file, env) ==
    IF ~env.elf_version THEN Result(-ENOTSUP, iv, h)
    ELSE IF ~env.open THEN Result(-1, iv, h)
    ELSE IF file.hdr = "not_elf" THEN Result(-env.elf_errno, iv, h)
    ELSE IF file.hdr \in {"class32", "bad_type", "bad_machine"}
    THEN Result(-ENOTSUP, iv, h)
    ELSE load_elf64_segments(iv, h, file, env, 1, 0)

(* fb: the memory map the flat fallback started on, when it ran *)
Loaded(r, ran, map) ==
    [res |-> r.res, iv |-> r.iv, host |-> r.host, fb |-> [ran |-> ran, map |-> map]]

NoFallback(r) == Loaded(r, FALSE, <<>>)

(* libivee.c:372-376, e being what load_elf64 returned *)
load_any_fallback(file, env, e) ==
    IF e.res = 0 THEN NoFallback(e)
    ELSE Loaded(load_bin(e.iv, e.host, file, env), TRUE, e.iv.memory_map)

load_any(iv, h, file, env) == load_any_fallback(file, env, load_elf64(iv, h, file, env))

----------------------------------------------------------------------------
(* KVM wrapper (kvm.c, from spec.md 4.5 and 6) *)

Slot(mr, h) ==
    [gpa |-> mr.first_gfn * X86_PAGE_SIZE,
     size |-> (mr.last_gfn - mr.first_gfn + 1) * X86_PAGE_SIZE,
     hva |-> mr.hva, ro |-> IVEE_WRITE \notin mr.prot]

(* ivee_set_kvm_memory_map: region i goes to slot i; the install of slot
   kvm_ok + 1 fails when kvm_ok >= 0 and the map has that many regions *)
ivee_set_kvm_memory_map(v, map, h, kvm_ok) ==
    LET fails == kvm_ok >= 0 /\ kvm_ok < Len(map)
        n == IF fails THEN kvm_ok ELSE Len(map)
        top == IF Len(v.slots) > n THEN Len(v.slots) ELSE n
    IN  [res |-> IF fails THEN -EIO ELSE 0,
         vm |-> [v EXCEPT !.slots =
                    [i \in 1..top |-> IF i <= n THEN Slot(map[i], h)
                                      ELSE v.slots[i]]]]

----------------------------------------------------------------------------
(* ivee_load_executable, libivee.c:379-431 *)

FORMATS == {"IVEE_EXEC_BIN", "IVEE_EXEC_ELF64", "IVEE_EXEC_ANY"}

(* the error_out label: the memory map dropped *)
load_error_out(res, iv, v, h, fb) ==
    [res |-> res, iv |-> [iv EXCEPT !.memory_map = <<>>], vm |-> v,
     host |-> FreeHost(iv.memory_map, h), validated |-> TRUE, fb |-> fb]

(* libivee.c:420-425, g being what init_guest_page_table returned and k what
   ivee_set_kvm_memory_map returned *)
load_installed(g, fb, k) ==
    IF k.res # 0 THEN load_error_out(k.res, g.iv, k.vm, g.host, fb)
    ELSE [res |-> 0, iv |-> [g.iv EXCEPT !.x86_cpu = init_x86_cpu],
          vm |-> k.vm, host |-> g.host, validated |-> TRUE, fb |-> fb]

(* libivee.c:415-419 *)
load_tables_built(v, env, fb, g) ==
    IF g.res # 0 THEN load_error_out(g.res, g.iv, v, g.host, fb)
    ELSE load_installed(g, fb, ivee_set_kvm_memory_map(v, g.iv.memory_map, g.host,
                                                       env.kvm_ok))

(* libivee.c:410-414, l being what the loader returned *)
load_file_loaded(v, env, l) ==
    IF l.res # 0 THEN load_error_out(l.res, l.iv, v, l.host, l.fb)
    ELSE load_tables_built(v, env, l.fb,
                           init_guest_page_table(l.iv, l.host, ~env.oom_gpt))

(* the switch on format, libivee.c:396-408 *)
load_by_format(iv, h, file, format, env) ==
    CASE format = "IVEE_EXEC_BIN" -> NoFallback(load_bin(iv, h, file, env))
      [] format = "IVEE_EXEC_ELF64" -> NoFallback(load_elf64(iv, h, file, env))
      [] format = "IVEE_EXEC_ANY" -> load_any(iv, h, file, env)
      [] OTHER -> NoFallback(Result(-ENOTSUP, iv, h))

LoadInvalid(iv, v, h) ==
    [res |-> -EINVAL, iv |-> iv, vm |-> v, host |-> h, validated |-> FALSE,
     fb |-> [ran |-> FALSE, map |-> <<>>]]

ivee_load_executable(is_null, iv, v, h, file, format, env) ==
    IF is_null THEN LoadInvalid(iv, v, h)
    ELSE IF file.name = "NULL" THEN LoadInvalid(iv, v, h)
    ELSE IF ~file.access THEN LoadInvalid(iv, v, h)
    ELSE load_file_loaded(v, env, load_by_format(iv, h, file, format, env))

----------------------------------------------------------------------------
(* ivee_call, libivee.c:433-531.  The guest and KVM are the record env:
     kvm_load, kvm_store  whether the vCPU state can be written and read back
     guest                what the guest does to the registers while it runs
     script               the result of each ivee_kvm_run, in order *)

GPR_ORDER == <<"rax", "rbx", "rcx", "rdx", "rsi", "rdi", "rbp",
               "r8", "r9", "r10", "r11", "r12", "r13", "r14", "r15">>

(* the registers load_vcpu_state copies in, libivee.c:436-450 *)
LOADED_GPRS == {"rax", "rbx", "rcx", "rdx", "rsi", "rdi", "rbp",
                "r8", "r9", "r10", "r11", "r12", "r13", "r14", "r15"}

(* the registers store_vcpu_state copies out, libivee.c:464-477 *)
STORED_GPRS == {"rax", "rbx", "rcx", "rdx", "rsi", "rdi",
                "r8", "r9", "r10", "r11", "r12", "r13", "r14", "r15"}

Guest(prog, gpr) ==
    CASE prog = "nop"  -> gpr
      [] prog = "xchg" -> [gpr EXCEPT !["rax"] = gpr["rbx"], !["rbx"] = gpr["rax"]]
      [] prog = "inc"  -> [r \in GPRS |-> gpr[r] + 1]

(* what one ivee_kvm_run returns: its status and the exit record *)
RunResult(kind) ==
    CASE kind = "intr"  -> [res |-> -EINTR, reason |-> "NONE", port |-> "NONE"]
      [] kind = "exit"  -> [res |-> 0, reason |-> "IVEE_EXIT_IO",
                            port |-> "IVEE_PIO_EXIT_PORT"]
      [] kind = "pio"   -> [res |-> 0, reason |-> "IVEE_EXIT_IO", port |-> "0x60"]
      [] kind = "mmio"  -> [res |-> 0, reason |-> "IVEE_EXIT_MMIO", port |-> "NONE"]

(* ivee_kvm_load_vcpu_state: the whole image committed to the vCPU *)
ivee_kvm_load_vcpu_state(v, x86_cpu, ok) ==
    IF ok THEN [res |-> 0, vm |-> [v EXCEPT !.vcpu = x86_cpu]]
    ELSE [res |-> -EIO, vm |-> v]

(* ivee_kvm_store_vcpu_state: the vCPU's image read back *)
ivee_kvm_store_vcpu_state(v, x86_cpu, ok) ==
    IF ok THEN [res |-> 0, x86_cpu |-> v.vcpu]
    ELSE [res |-> -EIO, x86_cpu |-> x86_cpu]

(* ivee_kvm_run: one entry into the guest, which runs prog from rip on and
   stops behind the instruction that made it exit *)
ivee_kvm_run(v, prog, kind) ==
    [res |-> RunResult(kind).res, exit |-> RunResult(kind),
     vm |-> [v EXCEPT !.vcpu.gpr = Guest(prog, @), !.vcpu.rip = @ + 2]]

(* rip is left as the image read back by the previous call has it *)
load_vcpu_state_keeps_rip(iv, v, state, ok) ==
    LET x86_cpu == [iv.x86_cpu EXCEPT
                      !.gpr = [r \in GPRS |-> IF r \in LOADED_GPRS THEN state[r]
                                              ELSE @[r]]]
        k == ivee_kvm_load_vcpu_state(v, x86_cpu, ok)
    IN  [res |-> k.res, iv |-> [iv EXCEPT !.x86_cpu = x86_cpu], vm |-> k.vm]

load_vcpu_state(iv, v, state, ok) ==
    LET x86_cpu == [iv.x86_cpu EXCEPT
                      !.gpr = [r \in GPRS |-> IF r \in LOADED_GPRS THEN state[r]
                                              ELSE @[r]],
                      !.rip = iv.entry_addr]
        k == ivee_kvm_load_vcpu_state(v, x86_cpu, ok)
    IN  [res |-> k.res, iv |-> [iv EXCEPT !.x86_cpu = x86_cpu], vm |-> k.vm]

store_vcpu_state_early(iv, v, state, ok) ==
    LET k == ivee_kvm_store_vcpu_state(v, iv.x86_cpu, ok)
    IN  [res |-> k.res, iv |-> [iv EXCEPT !.x86_cpu = k.x86_cpu],
         state |-> [r \in GPRS |-> IF r \in STORED_GPRS THEN v.vcpu.gpr[r]
                                   ELSE state[r]]]

store_vcpu_state(iv, v, state, ok) ==
    LET k == ivee_kvm_store_vcpu_state(v, iv.x86_cpu, ok)
        iv1 == [iv EXCEPT !.x86_cpu = k.x86_cpu]
    IN  IF k.res # 0 THEN [res |-> k.res, iv |-> iv1, state |-> state]
        ELSE [res |-> 0, iv |-> iv1,
              state |-> [r \in GPRS |-> IF r \in STORED_GPRS THEN iv1.x86_cpu.gpr[r]
                                        ELSE state[r]]]

(* a PIO exit on another port is consumed and the guest resumed *)
handle_pio_resumes(iv, pio) ==
    IF pio.port = "IVEE_PIO_EXIT_PORT"
    THEN [res |-> 0, iv |-> [iv EXCEPT !.should_terminate = TRUE]]
    ELSE [res |-> 0, iv |-> iv]

handle_pio_any_port(iv, pio) ==
    [res |-> 0, iv |-> [iv EXCEPT !.should_terminate = TRUE]]

handle_pio(iv, pio) ==
    IF pio.port = "IVEE_PIO_EXIT_PORT"
    THEN [res |-> 0, iv |-> [iv EXCEPT !.should_terminate = TRUE]]
    ELSE [res |-> -ENOTSUP, iv |-> iv]

NoExit == [res |-> 0, reason |-> "NONE", port |-> "NONE"]

(* the do-while loop, libivee.c:509-528, from run n + 1 on.  done: the loop
   was left by its condition; otherwise res was returned from inside it.  A
   run the script does not cover is interrupted. *)
RECURSIVE run_loop(_, _, _, _)
run_loop(iv, v, env, n) ==
    LET kind == IF n < Len(env.script) THEN env.script[n + 1] ELSE "intr"
        r == ivee_kvm_run(v, env.guest, kind)
        d == IF r.exit.reason = "IVEE_EXIT_IO" THEN handle_pio(iv, r.exit)
             ELSE [res |-> -ENOTSUP, iv |-> iv]
    IN  IF r.res # 0
        THEN [done |-> FALSE, res |-> r.res, iv |-> iv, vm |-> r.vm,
              runs |-> n + 1, exit |-> NoExit]
        ELSE IF d.res # 0
        THEN [done |-> FALSE, res |-> d.res, iv |-> d.iv, vm |-> r.vm,
              runs |-> n + 1, exit |-> r.exit]
        ELSE IF ~d.iv.should_terminate
        THEN run_loop(d.iv, r.vm, env, n + 1)
        ELSE [done |-> TRUE, res |-> 0, iv |-> d.iv, vm |-> r.vm,
              runs |-> n + 1, exit |-> r.exit]

(* runs: the ivee_kvm_run calls made; exit: the last exit record received;
   committed: the image handed to ivee_kvm_load_vcpu_state *)
ivee_call(ivee_null, state_null, iv, v, state, env) ==
    LET l == load_vcpu_state(iv, v, state, env.kvm_load)
        iv1 == [l.iv EXCEPT !.should_terminate = FALSE]
        r == run_loop(iv1, l.vm, env, 0)
        s == store_vcpu_state(r.iv, r.vm, state, env.kvm_store)
    IN  IF ivee_null \/ state_null
        THEN [res |-> -EINVAL, iv |-> iv, vm |-> v, state |-> state,
              runs |-> 0, exit |-> NoExit, committed |-> ZeroCpu]
        ELSE IF l.res # 0
        THEN [res |-> l.res, iv |-> l.iv, vm |-> l.vm, state |-> state,
              runs |-> 0, exit |-> NoExit, committed |-> l.iv.x86_cpu]
        ELSE IF ~r.done
        THEN [res |-> r.res, iv |-> r.iv, vm |-> r.vm, state |-> state,
              runs |-> r.runs, exit |-> r.exit, committed |-> l.iv.x86_cpu]
        ELSE [res |-> s.res, iv |-> s.iv, vm |-> r.vm, state |-> s.state,
              runs |-> r.runs, exit |-> r.exit, committed |-> l.iv.x86_cpu]

----------------------------------------------------------------------------
(* ivee_create and ivee_destroy, libivee.c:42-91 *)

(* ivee_release_kvm_vm: the VM's file descriptors closed, its slots gone *)
ivee_release_kvm_vm(v) == [v EXCEPT !.released = TRUE, !.slots = <<>>]

(* the struct freed; the regions of iv.memory_map are not touched *)
ivee_destroy(is_null, s, iv, v, h) ==
    IF is_null THEN [session |-> s, vm |-> v, host |-> h]
    ELSE [session |-> "freed", vm |-> ivee_release_kvm_vm(v), host |-> h]

(* step: the first step that fails ("none": all succeed) *)
ivee_create(out_null, caps, step) ==
    LET made == [ZeroIvee EXCEPT !.vm = 1, !.memory_map = ivee_init_memory_map]
    IN  IF out_null THEN [res |-> -EINVAL, session |-> "none"]
        ELSE IF caps # 0 THEN [res |-> -ENOTSUP, session |-> "none"]
        ELSE IF step = "zalloc" THEN [res |-> -ENOMEM, session |-> "none"]
        ELSE IF step = "init_kvm" THEN [res |-> -EIO, session |-> "none"]
        ELSE IF step = "create_vm" THEN [res |-> -ENXIO, session |-> "none"]
        ELSE IF step = "init_map" THEN [res |-> -ENOMEM, session |-> "none"]
        ELSE [res |-> 0, session |-> "live", iv |-> made]

----------------------------------------------------------------------------
(* The files handed to ivee_load_executable *)

Phdr(type, vaddr, memsz, filesz, flags, avail) ==
    [p_type |-> type, p_vaddr |-> vaddr, p_memsz |-> memsz, p_filesz |-> filesz,
     p_flags |-> flags, avail |-> avail]

Load(vaddr, memsz, filesz, flags) ==
    Phdr("PT_LOAD", vaddr, memsz, filesz, flags, filesz)

File(name, size, hdr, phdrs) ==
    [name |-> name, access |-> TRUE, size |-> size, hdr |-> hdr,
     e_entry |-> FLAT_BASE + 16, phdrs |-> phdrs]

PAGE == X86_PAGE_SIZE
RX == {"PF_R", "PF_X"}
RW == {"PF_R", "PF_W"}
LAST_FREE_GPA == IVEE_PML4_BASE_GPA - PAGE   \* the last frame below the page tables

NullFile == File("NULL", 0, "not_elf", <<>>)
Flat == File("flat", 2 * PAGE, "not_elf", <<>>)
Empty == File("empty", 0, "not_elf", <<>>)
NoAccess == [File("noaccess", PAGE, "not_elf", <<>>) EXCEPT !.access = FALSE]
ElfText ==
    File("elf_text", 3 * PAGE, "ok",
         <<Phdr("PT_NOTE", 0, 0, 0, {"PF_R"}, 0), Load(FLAT_BASE, 2 * PAGE, 2 * PAGE, RX)>>)
ElfTextData ==
    File("elf_text_data", 3 * PAGE, "ok",
         <<Load(FLAT_BASE, PAGE, PAGE, RX), Load(FLAT_BASE + PAGE, 2 * PAGE, PAGE, RW)>>)
ElfLast == File("elf_last", 2 * PAGE, "ok", <<Load(LAST_FREE_GPA, PAGE, PAGE, {"PF_R"})>>)
ElfOver == File("elf_over", 3 * PAGE, "ok", <<Load(LAST_FREE_GPA, 2 * PAGE, PAGE, {"PF_R"})>>)
ElfAlias ==
    File("elf_alias", 3 * PAGE, "ok",
         <<Load(FLAT_BASE, PAGE, PAGE, RX),
           Load(IVEE_GUEST_MEMORY_SIZE + FLAT_BASE, PAGE, PAGE, RW)>>)
ElfHigh ==
    File("elf_high", 2 * PAGE, "ok", <<Load(IVEE_GUEST_MEMORY_SIZE + 5 * PAGE, PAGE, PAGE, RW)>>)
ElfMisaligned ==
    File("elf_misaligned", 2 * PAGE, "ok", <<Load(FLAT_BASE + 1, PAGE, PAGE, RX)>>)
ElfOverlap ==
    File("elf_overlap", 3 * PAGE, "ok",
         <<Load(FLAT_BASE, 2 * PAGE, PAGE, RX), Load(FLAT_BASE + PAGE, PAGE, PAGE, RW)>>)
ElfTrunc ==
    File("elf_trunc", 2 * PAGE, "ok",
         <<Load(6291456, PAGE, PAGE, RW),
           Phdr("PT_LOAD", 7340032, PAGE, PAGE, RX, 100)>>)
ElfTruncFirst ==
    File("elf_trunc_first", PAGE, "ok", <<Phdr("PT_LOAD", FLAT_BASE, PAGE, PAGE, RX, 100)>>)
ElfBigFilesz ==
    File("elf_big_filesz", 3 * PAGE, "ok", <<Load(FLAT_BASE, PAGE, 2 * PAGE, RW)>>)
ElfSmallMemsz ==
    File("elf_small_memsz", 2 * PAGE, "ok", <<Load(FLAT_BASE, 100, 200, RW)>>)
ElfBadMachine == File("elf_bad_machine", PAGE, "bad_machine", <<>>)
ElfClass32 == File("elf_class32", PAGE, "class32", <<>>)

Files == {Flat, Empty, NoAccess, ElfText, ElfTextData, ElfLast, ElfOver, ElfAlias,
          ElfHigh, ElfMisaligned, ElfOverlap, ElfTrunc, ElfTruncFirst, ElfBigFilesz,
          ElfSmallMemsz,
          ElfBadMachine, ElfClass32}

NoFault ==
    [stat |-> TRUE, open |-> TRUE, elf_version |-> TRUE, elf_errno |-> 1,
     oom_seg |-> 0, oom_bin |-> FALSE, oom_gpt |-> FALSE, io_seg |-> 0,
     errno |-> 0, guard |-> FALSE, kvm_ok |-> -1]

Fault(what) ==
    [NoFault EXCEPT !.stat = (what # "stat"), !.open = (what # "open"),
                    !.elf_version = (what # "elf_version"),
                    !.oom_bin = (what = "oom_bin"), !.oom_gpt = (what = "oom_gpt")]
SegOom(i) == [NoFault EXCEPT !.oom_seg = i]
SegIo(i) == [NoFault EXCEPT !.io_seg = i]
KvmFails(n) == [NoFault EXCEPT !.kvm_ok = n]
StaleErrno == [NoFault EXCEPT !.errno = EINTR]
Guarded == [NoFault EXCEPT !.guard = TRUE]

LoadInput(file, format, env) == [file |-> file, format |-> format, env |-> env]

Inputs(file, formats, envs) ==
    {LoadInput(file, fmt, e) : fmt \in formats, e \in envs}

BIN == {"IVEE_EXEC_BIN"}
ELF == {"IVEE_EXEC_ELF64"}
ANY == {"IVEE_EXEC_ANY"}

LoadInputs ==
    Inputs(Flat, FORMATS \cup {"IVEE_EXEC_INVALID"}, {NoFault})
    \cup Inputs(Empty, BIN, {NoFault})
    \cup Inputs(NoAccess, BIN, {NoFault})
    \cup Inputs(ElfText, ELF, {NoFault})
    \cup Inputs(ElfTextData, ELF \cup ANY, {NoFault})
    \cup Inputs(ElfLast, ELF, {NoFault})
    \cup Inputs(ElfOver, ELF, {NoFault})
    \cup Inputs(ElfAlias, ELF, {NoFault})
    \cup Inputs(ElfHigh, ELF, {NoFault})
    \cup Inputs(ElfMisaligned, ELF \cup ANY, {NoFault})
    \cup Inputs(ElfOverlap, ELF, {NoFault})
    \cup Inputs(ElfTrunc, ELF \cup ANY, {NoFault, StaleErrno})
    \cup Inputs(ElfTruncFirst, ELF \cup ANY, {NoFault, StaleErrno})
    \cup Inputs(ElfBigFilesz, ELF, {NoFault, Guarded})
    \cup Inputs(ElfSmallMemsz, ELF, {NoFault})
    \cup Inputs(ElfBadMachine, ELF \cup ANY, {NoFault})
    \cup Inputs(ElfClass32, ELF, {NoFault})
    \cup Inputs(Flat, BIN, {Fault("stat"), Fault("open"), Fault("oom_bin"),
                            Fault("oom_gpt"), KvmFails(0), KvmFails(1)})
    \cup Inputs(Flat, ANY, {[NoFault EXCEPT !.elf_errno = 0]})
    \cup Inputs(ElfText, ELF, {Fault("open"), Fault("elf_version")})
    \cup Inputs(ElfTextData, ELF, {SegOom(1), SegOom(2), SegIo(1), SegIo(2),
                                   Fault("oom_gpt"), KvmFails(1), KvmFails(2)})
    \cup Inputs(ElfTextData, ANY, {SegOom(2), SegIo(2)})
    \cup Inputs(ElfTrunc, ANY, {SegIo(2)})

(* the loads of the sessions whose calls are explored *)
LoadInputsBeforeCall ==
    {LoadInput(Flat, "IVEE_EXEC_BIN", NoFault),
     LoadInput(ElfTextData, "IVEE_EXEC_ANY", NoFault),
     LoadInput(Flat, "IVEE_EXEC_BIN", KvmFails(1))}

(* The registers the caller passes and what happens during the call *)
RegIndex(r) == CHOOSE i \in 1..Len(GPR_ORDER) : GPR_ORDER[i] = r

ArchInputs == {[r \in GPRS |-> 0], [r \in GPRS |-> RegIndex(r)]}

Scripts ==
    {<<"intr">>, <<"exit">>, <<"pio">>, <<"mmio">>,
     <<"intr", "exit">>, <<"exit", "exit">>, <<"pio", "exit">>, <<"mmio", "exit">>}

CallEnv(kvm_load, kvm_store, guest, script) ==
    [kvm_load |-> kvm_load, kvm_store |-> kvm_store, guest |-> guest,
     script |-> script]

CallEnvs ==
    {CallEnv(FALSE, TRUE, "nop", <<"exit">>)}
    \cup {CallEnv(TRUE, TRUE, g, sc) : g \in {"nop", "xchg", "inc"}, sc \in Scripts}
    \cup {CallEnv(TRUE, FALSE, "inc", <<"exit">>)}

----------------------------------------------------------------------------
(* The state machine *)

NoLast ==
    [op |-> "none", res |-> 0, null_arg |-> FALSE,
     file |-> "NULL", format |-> "NONE", env |-> NoFault, validated |-> FALSE,
     pre_map |-> <<>>, pre_tables |-> NoMem,
     fb |-> [ran |-> FALSE, map |-> <<>>],
     entry |-> [r \in GPRS |-> 0], store_ok |-> TRUE, runs |-> 0,
     exit |-> NoExit, committed |-> [rip |-> 0, gpr |-> [r \in GPRS |-> 0]],
     load_ok |-> TRUE, was_terminated |-> FALSE]

MaxLoads == 2         \* loads explored per session
MaxCalls == 2         \* calls explored per session

Init ==
    /\ session = "none"
    /\ ivee = ZeroIvee
    /\ vm = NoVm
    /\ host = NoHost
    /\ arch_state \in ArchInputs
    /\ last = NoLast
    /\ ops = [loads |-> 0, calls |-> 0, loaded |-> FALSE, entry |-> 0]

Create ==
    /\ session = "none"
    /\ \E out_null \in BOOLEAN, caps \in {0, 1},
          step \in {"none", "zalloc", "init_kvm", "create_vm", "init_map"} :
         LET c == ivee_create(out_null, caps, step)
         IN  /\ session' = c.session
             /\ ivee' = IF c.res = 0 THEN c.iv ELSE ivee
             /\ last' = [NoLast EXCEPT !.op = "create", !.res = c.res,
                                       !.null_arg = out_null]
    /\ UNCHANGED <<vm, host, arch_state, ops>>

LoadFrom(inputs) ==
    /\ session = "live"
    /\ ops.loads < MaxLoads
    /\ \E in \in inputs :
         LET l == ivee_load_executable(FALSE, ivee, vm, host, in.file, in.format, in.env)
         IN  /\ ops' = [ops EXCEPT
                          !.loads = @ + 1,
                          !.loaded = IF l.validated THEN l.res = 0 ELSE @,
                          !.entry = IF l.res = 0 THEN l.iv.entry_addr ELSE @]
             /\ ivee' = l.iv
             /\ vm' = l.vm
             /\ host' = l.host
             /\ last' = [NoLast EXCEPT !.op = "load", !.res = l.res,
                                       !.file = in.file.name, !.format = in.format,
                                       !.env = in.env, !.validated = l.validated,
                                       !.pre_map = ivee.memory_map, !.fb = l.fb]
    /\ UNCHANGED <<session, arch_state>>

LoadExecutable == LoadFrom(LoadInputs)

LoadBeforeCall == LoadFrom(LoadInputsBeforeCall)

(* ivee_load_executable(NULL, file, format) and ivee_load_executable(ivee, NULL, format) *)
LoadBadArgs ==
    /\ \E ivee_null \in BOOLEAN :
         /\ ~ivee_null => session = "live"
         /\ LET l == ivee_load_executable(ivee_null, ivee, vm, host,
                                          IF ivee_null THEN Flat ELSE NullFile,
                                          "IVEE_EXEC_ANY", NoFault)
            IN  /\ ivee' = l.iv
                /\ vm' = l.vm
                /\ host' = l.host
                /\ last' = [NoLast EXCEPT !.op = "load", !.res = l.res,
                                          !.null_arg = TRUE,
                                          !.validated = l.validated,
                                          !.pre_map = ivee.memory_map, !.fb = l.fb]
    /\ UNCHANGED <<session, arch_state, ops>>

Call ==
    /\ session = "live"
    /\ ops.calls < MaxCalls
    /\ ops' = [ops EXCEPT !.calls = @ + 1]
    /\ \E in \in ArchInputs, env \in CallEnvs :
         LET c == ivee_call(FALSE, FALSE, ivee, vm, in, env)
         IN  /\ ivee' = c.iv
             /\ vm' = c.vm
             /\ arch_state' = c.state
             /\ last' = [NoLast EXCEPT !.op = "call", !.res = c.res, !.entry = in,
                                       !.store_ok = env.kvm_store, !.runs = c.runs,
                                       !.exit = c.exit,
                                       !.committed = [rip |-> c.committed.rip,
                                                      gpr |-> c.committed.gpr],
                                       !.load_ok = env.kvm_load,
                                       !.was_terminated = ivee.should_terminate]
    /\ UNCHANGED <<session, host>>

(* ivee_call(NULL, state) and ivee_call(ivee, NULL) *)
CallBadArgs ==
    /\ \E ivee_null \in BOOLEAN :
         /\ ~ivee_null => session = "live"
         /\ LET c == ivee_call(ivee_null, ~ivee_null, ivee, vm, arch_state,
                               CallEnv(TRUE, TRUE, "nop", <<"exit">>))
            IN  /\ ivee' = c.iv
                /\ vm' = c.vm
                /\ arch_state' = c.state
                /\ last' = [NoLast EXCEPT !.op = "call", !.res = c.res,
                                          !.null_arg = TRUE, !.entry = arch_state,
                                          !.runs = c.runs, !.exit = c.exit]
    /\ UNCHANGED <<session, host, ops>>

Destroy ==
    /\ session = "live"
    /\ LET d == ivee_destroy(FALSE, session, ivee, vm, host)
       IN  /\ session' = d.session
           /\ vm' = d.vm
           /\ host' = d.host
    /\ ivee' = ZeroIvee               \* the struct is gone
    /\ last' = [NoLast EXCEPT !.op = "destroy"]
    /\ UNCHANGED <<arch_state, ops>>

(* ivee_destroy(NULL) *)
DestroyNull ==
    /\ LET d == ivee_destroy(TRUE, session, ivee, vm, host)
       IN  /\ session' = d.session
           /\ vm' = d.vm
           /\ host' = d.host
    /\ last' = [NoLast EXCEPT !.op = "destroy", !.null_arg = TRUE]
    /\ UNCHANGED <<ivee, arch_state, ops>>

(* a session that is loaded from a few files and then called *)
Next ==
    \/ Create
    \/ LoadBeforeCall
    \/ LoadBadArgs
    \/ Call
    \/ CallBadArgs
    \/ Destroy
    \/ DestroyNull

Spec == Init /\ [][Next]_vars

(* a session that is loaded from every file, under every fault *)
NextLoad ==
    \/ Create
    \/ LoadExecutable
    \/ LoadBadArgs
    \/ Destroy
    \/ DestroyNull

SpecLoad == Init /\ [][NextLoad]_vars

(* init_guest_page_table run once more, right after the load that ran it
   successfully, on the memory map that run left *)
BuildAgain ==
    /\ session = "live"
    /\ last.op = "load" /\ last.validated /\ last.res = 0
    /\ LET g == init_guest_page_table(ivee, host, TRUE)
       IN  /\ ivee' = g.iv
           /\ host' = g.host
           /\ last' = [NoLast EXCEPT !.op = "build", !.res = g.res,
                                     !.pre_map = ivee.memory_map,
                                     !.pre_tables = host[ivee.gpt_mr].mem]
    /\ UNCHANGED <<session, vm, arch_state, ops>>

(* a session that is loaded and whose page tables are then built again *)
NextBuild ==
    \/ Create
    \/ LoadExecutable
    \/ BuildAgain
    \/ Destroy

SpecBuild == Init /\ [][NextBuild]_vars

----------------------------------------------------------------------------
(* What the claims speak of *)

CallReturned == last.op = "call" /\ ~last.null_arg
LoadReturned == last.op = "load" /\ last.validated
FreshLoad == LoadReturned /\ last.pre_map = <<>>

FileNamed(n) == CHOOSE f \in Files : f.name = n

(* the leaf entry PT[(gfn >> 9) & 0x1FF][gfn & 0x1FF] of the session's tables *)
LeafEntry(gfn) == WordAt(host[ivee.gpt_mr].mem, PTE_PAGES_BASE + SlotIndex(gfn))

InSomeRegion(gfn) ==
    \E i \in 1..Len(ivee.memory_map) :
        ivee.memory_map[i].first_gfn <= gfn /\ gfn <= ivee.memory_map[i].last_gfn

(* the file has a LOAD segment that holds fewer bytes than p_filesz, and the
   load under env gets as far as reading it *)
ShortReadReached(f, env) ==
    /\ f.hdr = "ok"
    /\ env.open /\ env.elf_version /\ env.oom_seg = 0 /\ env.io_seg = 0
    /\ \E i \in 1..Len(f.phdrs) :
         /\ f.phdrs[i].p_type = "PT_LOAD"
         /\ f.phdrs[i].avail < f.phdrs[i].p_filesz
         /\ \A j \in 1..(i - 1) : f.phdrs[j].avail >= f.phdrs[j].p_filesz

----------------------------------------------------------------------------
(* C1: after an ivee_call that returns 0, each of the 15 general-purpose
   registers of the caller's arch_state equals the value the register had in
   the vCPU when the guest wrote the exit port. *)
C1_AllGprsStored ==
    (CallReturned /\ last.res = 0) =>
        \A r \in GPRS : arch_state[r] = vm.vcpu.gpr[r]

(* C2: whenever ivee_call returns a non-zero status, every field of the
   caller's arch_state is what it was at call entry. *)
C2_FailedCallKeepsArchState ==
    (last.op = "call" /\ last.res # 0) => arch_state = last.entry

(* a call whose guest changed the registers and reached the exit port, and
   whose read-back of the vCPU state failed *)
C2_Witness ==
    /\ CallReturned /\ last.res # 0
    /\ last.exit.port = "IVEE_PIO_EXIT_PORT"
    /\ vm.vcpu.gpr # last.entry
    /\ arch_state = last.entry

(* C3: a PIO exit on IVEE_PIO_EXIT_PORT sets should_terminate and the call
   returns the status of the state read-back; a PIO exit on another port and
   an exit of another reason make the call return -ENOTSUP at once; the call
   returns 0 only if its last exit was a PIO exit on the exit port. *)
C3_ExitDispatch ==
    CallReturned =>
        /\ (last.exit.reason = "IVEE_EXIT_IO" /\ last.exit.port = "IVEE_PIO_EXIT_PORT")
             => /\ ivee.should_terminate
                /\ last.res = (IF last.store_ok THEN 0 ELSE -EIO)
        /\ (last.exit.reason = "IVEE_EXIT_IO" /\ last.exit.port # "IVEE_PIO_EXIT_PORT")
             => (last.res = -ENOTSUP /\ last.runs = 1 /\ ~ivee.should_terminate)
        /\ (last.exit.reason \notin {"IVEE_EXIT_IO", "NONE"})
             => (last.res = -ENOTSUP /\ last.runs = 1 /\ ~ivee.should_terminate)
        /\ last.res = 0
             => (last.exit.reason = "IVEE_EXIT_IO"
                 /\ last.exit.port = "IVEE_PIO_EXIT_PORT")

(* a call that ended on a PIO exit on a port other than the exit port *)
C3_Witness ==
    /\ CallReturned
    /\ last.exit.reason = "IVEE_EXIT_IO" /\ last.exit.port = "0x60"
    /\ last.res = -ENOTSUP

(* C4: whenever ivee_load_executable returns a non-zero status after the
   argument validation, the memory map is empty and the session is as right
   after ivee_create: no regions, no entry address, no page-table region. *)
C4_FailedLoadRestoresPostCreate ==
    (LoadReturned /\ last.res # 0) =>
        /\ ivee.memory_map = <<>>
        /\ ivee.entry_addr = 0
        /\ ivee.gpt_mr = NULL

(* C5: in auto-detect mode the flat fallback starts on the memory map the
   ELF64 attempt started with: every region the failed attempt added is gone. *)
C5_FallbackStartsClean ==
    (LoadReturned /\ last.fb.ran) => last.fb.map = last.pre_map

(* C6: after ivee_destroy on a session no host mapping of the session remains
   allocated. *)
C6_DestroyReleasesMappings ==
    session = "freed" => DOMAIN host = {}

(* C7: after a successful ivee_load_executable, the leaf entry of every frame
   of every region is PRESENT, holds gfn << 12, has RW exactly when the region
   is writable and NX exactly when it is not executable. *)
C7_RegionFramesMapped ==
    (LoadReturned /\ last.res = 0) =>
        \A i \in 1..Len(ivee.memory_map) :
            \A gfn \in ivee.memory_map[i].first_gfn..ivee.memory_map[i].last_gfn :
                /\ LeafEntry(gfn).p
                /\ LeafEntry(gfn).addr = gfn * X86_PAGE_SIZE
                /\ LeafEntry(gfn).rw <=> (IVEE_WRITE \in ivee.memory_map[i].prot)
                /\ LeafEntry(gfn).nx <=> (IVEE_EXEC \notin ivee.memory_map[i].prot)

(* C8: after a successful ivee_load_executable, the leaf entry of every frame
   of the low 1 GiB that lies in no region is zero. *)
C8_UnmappedFramesZero ==
    (LoadReturned /\ last.res = 0) =>
        \A gfn \in 0..(IVEE_GUEST_PAGES_COUNT - 1) :
            InSomeRegion(gfn) \/ LeafEntry(gfn) = ZeroPTE

(* C9: an executable whose last frame is the last one below the page-table
   region loads, and one that reaches one frame higher fails with -EINVAL. *)
C9_PageTableBoundary ==
    (FreshLoad /\ last.format = "IVEE_EXEC_ELF64" /\ last.env = NoFault) =>
        /\ last.file = "elf_last" => last.res = 0
        /\ last.file = "elf_over" => last.res = -EINVAL

(* C10: an ELF64 load in which the read of a LOAD segment returns fewer than
   p_filesz bytes fails with a non-zero status. *)
C10_ShortReadFails ==
    (FreshLoad /\ last.format = "IVEE_EXEC_ELF64"
     /\ ShortReadReached(FileNamed(last.file), last.env)) => last.res # 0

(* the load under env gets as far as reading a LOAD segment of f whose
   p_filesz is larger than its p_memsz *)
BigFileszReached(f, env) ==
    /\ f.hdr = "ok"
    /\ env.open /\ env.elf_version /\ env.oom_seg = 0 /\ env.io_seg = 0
    /\ \E i \in 1..Len(f.phdrs) :
         /\ f.phdrs[i].p_type = "PT_LOAD"
         /\ f.phdrs[i].p_filesz > f.phdrs[i].p_memsz
         /\ \A j \in 1..(i - 1) : f.phdrs[j].avail >= f.phdrs[j].p_filesz

(* C11: an ELF64 load with a LOAD segment whose p_filesz exceeds p_memsz fails
   with IO_ERROR or INVALID, and no host mapping ever receives more bytes than
   its size. *)
C11_BigFileszRejected ==
    /\ (FreshLoad /\ last.format = "IVEE_EXEC_ELF64"
        /\ BigFileszReached(FileNamed(last.file), last.env))
           => last.res \in {-EIO, -EINVAL}
    /\ \A k \in DOMAIN host : host[k].written <= host[k].size

Frames(mr) == mr.first_gfn..mr.last_gfn

(* C12: in every state of a live session every region of the memory map has
   last_gfn < 2^18, so no two distinct region frames share a leaf slot. *)
C12_RegionsInLow1GiB ==
    session = "live" =>
        /\ \A i \in 1..Len(ivee.memory_map) :
               ivee.memory_map[i].last_gfn < IVEE_GUEST_PAGES_COUNT
        /\ \A i, j \in 1..Len(ivee.memory_map) :
               \A g \in Frames(ivee.memory_map[i]), g2 \in Frames(ivee.memory_map[j]) :
                   g # g2 => SlotIndex(g) # SlotIndex(g2)

(* the word at index i of the session's page-table region *)
TableWord(i) == WordAt(host[ivee.gpt_mr].mem, i)

(* C13: after a successful build PML4[0], PDPT[0] and every PD[i], i in
   [0, 512), are PRESENT and RW and hold the base of the next-level page. *)
C13_IntermediateEntriesWritable ==
    (LoadReturned /\ last.res = 0) =>
        /\ TableWord(PML4_AT) = PTE(IVEE_PDPE_BASE_GPA, {X86_PTE_PRESENT, X86_PTE_RW})
        /\ TableWord(PDPE_AT) = PTE(IVEE_PDE_BASE_GPA, {X86_PTE_PRESENT, X86_PTE_RW})
        /\ \A i \in 0..(X86_PTES_PER_PAGE - 1) :
               TableWord(PDE_AT + i) =
                   PTE(IVEE_PTE_BASE_GPA + X86_PAGE_SIZE * i,
                       {X86_PTE_PRESENT, X86_PTE_RW})

FirstFrame(ph) == ph.p_vaddr \div X86_PAGE_SIZE
LastFrame(ph) == FirstFrame(ph) + (RoundUpPage(ph.p_memsz) \div X86_PAGE_SIZE) - 1

(* mapping the region of LOAD header i of f cannot succeed: p_vaddr is
   misaligned, the region overlaps an earlier LOAD segment, or the host mapping
   cannot be allocated *)
SegmentMapFails(f, env, i) ==
    \/ f.phdrs[i].p_vaddr % X86_PAGE_SIZE # 0
    \/ env.oom_seg = i
    \/ \E j \in 1..(i - 1) :
         /\ f.phdrs[j].p_type = "PT_LOAD"
         /\ FirstFrame(f.phdrs[j]) <= LastFrame(f.phdrs[i])
         /\ FirstFrame(f.phdrs[i]) <= LastFrame(f.phdrs[j])

(* the load under env gets as far as a LOAD segment of f whose region cannot
   be mapped *)
MapFailureReached(f, env) ==
    /\ f.hdr = "ok"
    /\ env.open /\ env.elf_version
    /\ \E i \in 1..Len(f.phdrs) :
         /\ f.phdrs[i].p_type = "PT_LOAD"
         /\ SegmentMapFails(f, env, i)
         /\ \A j \in 1..(i - 1) :
              f.phdrs[j].p_type = "PT_LOAD" =>
                  (env.io_seg # j /\ f.phdrs[j].avail >= f.phdrs[j].p_filesz
                   /\ f.phdrs[j].p_filesz <= RoundUpPage(f.phdrs[j].p_memsz))

EveryLoadSegmentMapped(f) ==
    \A i \in 1..Len(f.phdrs) :
        f.phdrs[i].p_type = "PT_LOAD" =>
            \E k \in 1..Len(ivee.memory_map) :
                /\ ivee.memory_map[k].first_gfn = FirstFrame(f.phdrs[i])
                /\ ivee.memory_map[k].last_gfn = LastFrame(f.phdrs[i])

(* every LOAD segment of f is read in full *)
ReadsComplete(f) ==
    \A i \in 1..Len(f.phdrs) :
        f.phdrs[i].p_type = "PT_LOAD" => f.phdrs[i].avail >= f.phdrs[i].p_filesz

(* C14: when the region of a LOAD segment cannot be mapped, the ELF64 load
   fails (format ELF64) or the flat fallback is attempted (format AUTO); an
   ELF64 load that succeeds, all reads being complete, has mapped every LOAD
   segment and has set the entry address to e_entry. *)
C14_SegmentMapFailureFails ==
    FreshLoad =>
        /\ (last.format = "IVEE_EXEC_ELF64"
            /\ MapFailureReached(FileNamed(last.file), last.env)) => last.res # 0
        /\ (last.format = "IVEE_EXEC_ANY"
            /\ MapFailureReached(FileNamed(last.file), last.env)) => last.fb.ran
        /\ (last.format = "IVEE_EXEC_ELF64" /\ last.res = 0
            /\ ReadsComplete(FileNamed(last.file))) =>
               /\ EveryLoadSegmentMapped(FileNamed(last.file))
               /\ ivee.entry_addr = FileNamed(last.file).e_entry

(* C15: a second run of the page-table builder on the memory map its first
   successful run left succeeds and leaves the memory map and every PML4,
   PDPT, PD and PT entry as the first run produced them. *)
C15_BuilderIdempotent ==
    last.op = "build" =>
        /\ last.res = 0
        /\ ivee.memory_map = last.pre_map
        /\ \A i \in 0..(PTE_PAGES_BASE + IVEE_GUEST_PAGES_COUNT - 1) :
               TableWord(i) = WordAt(last.pre_tables, i)

(* the session is loaded: its latest load that got past the argument checks
   returned 0 *)
SessionLoaded == session = "live" /\ ops.loaded

(* C16: for every ivee_call on a loaded session, also after earlier calls, the
   CPU image committed to the hypervisor has rip equal to the entry address
   the last successful load recorded and each of the 15 general-purpose
   registers equal to the caller's arch_state at entry. *)
C16_CommittedImage ==
    (CallReturned /\ SessionLoaded) =>
        /\ last.committed.rip = ops.entry
        /\ \A r \in GPRS : last.committed.gpr[r] = last.entry[r]

(* the second call on a loaded session, passing registers that differ from
   the ones the first call read back, the image having left the entry address *)
C16_Witness ==
    /\ CallReturned /\ SessionLoaded
    /\ ops.calls = 2 /\ ops.entry # 0
    /\ last.runs = 1 /\ last.res = 0
    /\ ivee.x86_cpu.rip # ops.entry
    /\ last.entry # arch_state
    /\ last.committed.rip = ops.entry
    /\ last.committed.gpr = last.entry

(* C17: every ivee_call enters the guest at most once: ivee_kvm_run is called
   exactly once when the vCPU state was loaded, also when should_terminate was
   left set by an earlier call, and not at all otherwise; no exit and no failed
   or interrupted run is followed by another run. *)
C17_OneRunPerCall ==
    CallReturned => last.runs = (IF last.load_ok THEN 1 ELSE 0)

(* a call that found should_terminate set by an earlier call and whose only
   run was interrupted *)
C17_Witness ==
    /\ CallReturned
    /\ last.was_terminated
    /\ last.load_ok /\ last.runs = 1
    /\ last.res = -EINTR

(* the region pointer ptr refers to a region of the memory map whose host
   mapping is allocated *)
RegionAlive(ptr) == ptr \in DOMAIN host /\ HasRegion(ivee.memory_map, ptr)

(* C18: in every state of a live session every memory slot installed in the
   VM and the page-table region reference gpt_mr refer to a region that is in
   the memory map and whose host mapping has not been released. *)
C18_NoDanglingRegion ==
    session = "live" =>
        /\ \A i \in 1..Len(vm.slots) : RegionAlive(vm.slots[i].hva)
        /\ ivee.gpt_mr # NULL => RegionAlive(ivee.gpt_mr)

(* C19: after a successful ivee_load_executable the boot CPU image has
   rflags = 0x2, cr0 = 0x80010001, cr4 = 0x20, efer = 0x500, CS with selector
   0x08 and the L flag, DS/SS/ES/FS/GS with selector 0x10, and cr3 equal to
   1 GiB - 515 * 4 KiB, the guest physical address of the first page of the
   page-table region in the memory map. *)
C19_BootCpuImage ==
    (LoadReturned /\ last.res = 0) =>
        /\ ivee.x86_cpu.rflags = 2
        /\ ivee.x86_cpu.cr0 = {0, 16, 31}
        /\ ivee.x86_cpu.cr4 = 32
        /\ ivee.x86_cpu.efer = 1280
        /\ ivee.x86_cpu.cs.selector = 8 /\ "L" \in ivee.x86_cpu.cs.flags
        /\ \A seg \in {"ds", "ss", "es", "fs", "gs"} : ivee.x86_cpu[seg].selector = 16
        /\ ivee.x86_cpu.cr3 = 1073741824 - 515 * 4096
        /\ \E i \in 1..Len(ivee.memory_map) :
               /\ ivee.memory_map[i].hva = ivee.gpt_mr
               /\ ivee.memory_map[i].first_gfn * X86_PAGE_SIZE = ivee.x86_cpu.cr3
               /\ ivee.memory_map[i].last_gfn - ivee.memory_map[i].first_gfn + 1 = 515

(* a successful ELF64 load of two segments: three regions, the boot image set *)
C19_Witness ==
    /\ LoadReturned /\ last.res = 0
    /\ last.format = "IVEE_EXEC_ELF64"
    /\ Len(ivee.memory_map) = 3
    /\ ivee.x86_cpu.cr3 = IVEE_PML4_BASE_GPA
    /\ ivee.x86_cpu.rflags = 2

====
